---- MODULE Spec2Model ----
(***************************************************************************)
(* Model of sim_env/parking_env.py: the Parking gymnasium environment      *)
(* (reset / step / _reward and the geometric predicates) together with the *)
(* scenario strategies BaseParking, ParallelParking, PerpendicularParking. *)
(*                                                                         *)
(* Units.  Lengths are integers in millimetres (1 m = 1000).  Angles are   *)
(* integers in units of pi/12 (15 degrees), so PI = 12 and 2*PI = 24; the  *)
(* heading psi is not normalised, as in the code.  Rewards and observation *)
(* components are integers in thousandths (reward 1 = 1000).               *)
(*                                                                         *)
(* sim_env.parameters, sim_env.car and sim_env.init_state are imported by  *)
(* the file but are not part of the sources at hand: their constants and   *)
(* the Car class are modelled from the specification (sections 3, 4.1).    *)
(* The values given to those constants keep the proportions the source     *)
(* shows (standoff 7.5 m, jitter of 5 m, slot at 50 px from the edge of a  *)
(* 800 x 600 px map) and are small enough for every rule of _reward to be   *)
(* met within MAX_STEPS steps.                                             *)
(*                                                                         *)
(* Rendering (render, _render, close and the window attributes) reads the  *)
(* episode and writes none of the state below; it is left out.             *)
(*                                                                         *)
(* Spec is the environment driven through reset and step.  GeometrySpec,   *)
(* AngleSpec and RedrawSpec call the geometric predicates,                 *)
(* generate_static_obstacles, the orientation penalty and the re-draw loop *)
(* of reset on their own, on inputs that an episode of MAX_STEPS steps     *)
(* does not reach; LongSpec goes on calling step past the step budget.     *)
(***************************************************************************)
EXTENDS Integers, Sequences, FiniteSets, TLC

VARIABLES
    parking_type,            \* env_config["parking_type"]
    action_type,             \* env_config["action_type"]
    training_mode,           \* env_config["training_mode"]
    py_random,               \* state of Python's global `random` generator
    np_global,               \* state of numpy's global `np.random` generator
    np_random,               \* generator owned by the env, seeded by reset(seed)
    side,                    \* self.side
    parking_lot,             \* self.parking_lot (slot centre)
    parking_lot_vertices,    \* self.parking_lot_vertices
    static_cars_vertices,    \* self.static_cars_vertices
    car,                     \* self.car: car_loc, loc_old, psi, v
    state,                   \* self.state (stored observation)
    terminated,              \* self.terminated
    truncated,               \* self.truncated
    run_steps,               \* self.run_steps
    ret,                     \* outcome of the last call
    reward,                  \* reward returned by the last step call that returned
    info,                    \* info returned by the last call that returned
    result                   \* what a helper called on its own returned

vars == <<parking_type, action_type, training_mode, py_random, np_global,
          np_random, side, parking_lot, parking_lot_vertices,
          static_cars_vertices, car, state, terminated, truncated, run_steps,
          ret, reward, info, result>>

config == <<parking_type, action_type, training_mode>>
scenario == <<side, parking_lot, parking_lot_vertices, static_cars_vertices>>
flags == <<terminated, truncated, run_steps>>
rngs == <<py_random, np_global, np_random>>

----------------------------------------------------------------------------
(* Bounds of the model *)

\* step calls explored per episode (the code itself never stops counting)
MaxRunSteps == 3

----------------------------------------------------------------------------
(* sim_env.parameters *)

PI == 12
MAX_STEPS == 3
MAX_DISTANCE == 15000
CENTER_THRESHOLD == 500
MAX_ANGLE_ERROR == 2
ACCELERATION_LIMIT == 1
STEERING_LIMIT == 2
CAR_L == 4000
CAR_W == 2000
SLOT_L == 6000
SLOT_W == 4000
OFFSET_PARALLEL == 7000
OFFSET_PERPENDICULAR == 4500
WINDOW_W == 800
WINDOW_H == 600
PIXEL_TO_METER_SCALE == 100

Rect(hx, hy) == << <<hx, hy>>, <<hx, -hy>>, <<-hx, -hy>>, <<-hx, hy>> >>

CAR_STRUCT == Rect(CAR_L \div 2, CAR_W \div 2)
PARALLEL_HORIZONTAL == Rect(SLOT_L \div 2, SLOT_W \div 2)
PARALLEL_VERTICAL == Rect(SLOT_W \div 2, SLOT_L \div 2)
PERPENDICULAR_HORIZONTAL == Rect(SLOT_W \div 2, SLOT_L \div 2)
PERPENDICULAR_VERTICAL == Rect(SLOT_L \div 2, SLOT_W \div 2)

----------------------------------------------------------------------------
(* Arithmetic *)

Abs(n) == IF n < 0 THEN -n ELSE n
Min(a, b) == IF a <= b THEN a ELSE b
Max(a, b) == IF a >= b THEN a ELSE b

\* np.clip
Clip(x, lo, hi) == Min(Max(x, lo), hi)

\* quotient rounded to the nearest integer (floating point quotient in the code)
RoundDiv(n, d) ==
    IF n >= 0 THEN (2 * n + d) \div (2 * d) ELSE -((2 * (-n) + d) \div (2 * d))

\* 1000 * cos(k * pi/12)
CosTable == <<1000, 966, 866, 707, 500, 259, 0, -259, -500, -707, -866, -966,
              -1000, -966, -866, -707, -500, -259, 0, 259, 500, 707, 866, 966>>

Cos(k) == CosTable[(k % (2 * PI)) + 1]
Sin(k) == Cos(k - PI \div 2)

\* vertices: a 4-corner structure translated to loc
Translate(struct, loc) ==
    <<<<struct[1][1] + loc[1], struct[1][2] + loc[2]>>,
      <<struct[2][1] + loc[1], struct[2][2] + loc[2]>>,
      <<struct[3][1] + loc[1], struct[3][2] + loc[2]>>,
      <<struct[4][1] + loc[1], struct[4][2] + loc[2]>>>>

----------------------------------------------------------------------------
(* sim_env.car: the Car class (kinematic bicycle model, specification 4.1) *)

VELOCITY_LIMIT == 4500
ACCEL_GAIN == 3000
WHEELBASE == 6000

\* the body rectangle rotated by psi and translated to loc
Rotate(p, psi) ==
    <<RoundDiv(p[1] * Cos(psi) - p[2] * Sin(psi), 1000),
      RoundDiv(p[1] * Sin(psi) + p[2] * Cos(psi), 1000)>>

CarVertices(loc, psi) ==
    Translate(<<Rotate(CAR_STRUCT[1], psi), Rotate(CAR_STRUCT[2], psi),
                Rotate(CAR_STRUCT[3], psi), Rotate(CAR_STRUCT[4], psi)>>, loc)

\* Car(car_loc, psi)
Car(loc, psi) ==
    [car_loc |-> loc, loc_old |-> loc, psi |-> psi, v |-> 0,
     car_vertices |-> CarVertices(loc, psi)]

\* Car.kinematic_act(action), action = <<acceleration, steering angle>>
kinematic_act(c, action) ==
    LET v2 == Clip(c.v + action[1] * ACCEL_GAIN, -VELOCITY_LIMIT, VELOCITY_LIMIT)
        loc2 == <<c.car_loc[1] + RoundDiv(v2 * Cos(c.psi), 1000),
                  c.car_loc[2] + RoundDiv(v2 * Sin(c.psi), 1000)>>
        psi2 == c.psi + RoundDiv(v2 * action[2], WHEELBASE)
    IN  [c EXCEPT !.v = v2, !.car_loc = loc2, !.psi = psi2,
                  !.car_vertices = CarVertices(loc2, psi2)]

----------------------------------------------------------------------------
(* The random generators.  Python's `random` module and numpy's `np.random` *)
(* are process-wide generators, seeded by the interpreter at start-up; the  *)
(* env's own generator np_random is the one reset(seed) seeds.  A generator *)
(* is a state; a draw is a function of the state and advances it.           *)

PyStates == 0..3
NpStates == 0..1
\* the seeds a caller passes to reset; np_random = 0 stands for a generator
\* that was never seeded
Seeds == {1}

\* the fraction (in tenths) the generator yields in state s
Fraction(s) == <<10, 6, 5, 0>>[(s % 4) + 1]

\* random.randint(lo, hi)
randint(lo, hi, s) == lo + (s % (hi - lo + 1))

\* random.uniform(lo, hi) / np.random.uniform(lo, hi)
uniform(lo, hi, s) == lo + ((hi - lo) * Fraction(s)) \div 10

----------------------------------------------------------------------------
(* Geometry: Parking.check_boundary and the predicates built on it *)

\* check_boundary(xy1, xy2, obj): xy1 top right, xy2 bottom left
check_boundary(xy1, xy2, obj) ==
    /\ xy2[1] <= obj[1] /\ obj[1] <= xy1[1]
    /\ xy2[2] <= obj[2] /\ obj[2] <= xy1[2]

\* as check_cross_border, a corner on the border edge counted as across it
check_cross_border_inclusive(sd, lot_vertices, car_vertices) ==
    LET pa_top_right == lot_vertices[1]
        pa_bottom_left == lot_vertices[3]
        pa_top_left == lot_vertices[4]
        pa_left_edge == pa_top_left[1]
        pa_right_edge == pa_top_right[1]
        pa_top_edge == pa_top_left[2]
        pa_bottom_edge == pa_bottom_left[2]
    IN  IF sd = 1 THEN \E i \in 1..4 : car_vertices[i][2] <= pa_bottom_edge
        ELSE IF sd = 2 THEN \E i \in 1..4 : car_vertices[i][2] >= pa_top_edge
        ELSE IF sd = 3 THEN \E i \in 1..4 : car_vertices[i][1] <= pa_left_edge
        ELSE \E i \in 1..4 : car_vertices[i][1] >= pa_right_edge

check_cross_border(sd, lot_vertices, car_vertices) ==
    LET pa_top_right == lot_vertices[1]
        pa_bottom_left == lot_vertices[3]
        pa_top_left == lot_vertices[4]
        pa_left_edge == pa_top_left[1]
        pa_right_edge == pa_top_right[1]
        pa_top_edge == pa_top_left[2]
        pa_bottom_edge == pa_bottom_left[2]
    IN  IF sd = 1 THEN \E i \in 1..4 : car_vertices[i][2] < pa_bottom_edge
        ELSE IF sd = 2 THEN \E i \in 1..4 : car_vertices[i][2] > pa_top_edge
        ELSE IF sd = 3 THEN \E i \in 1..4 : car_vertices[i][1] < pa_left_edge
        ELSE \E i \in 1..4 : car_vertices[i][1] > pa_right_edge

is_car_in_parking_lot(lot_vertices, car_vertices) ==
    \A i \in 1..4 : check_boundary(lot_vertices[1], lot_vertices[3], car_vertices[i])

\* as check_collision, by intersection of the rectangles spanned by the first
\* and third corners instead of corner containment
check_collision_by_overlap(cars_vertices, car_vertices) ==
    \E k \in 1..Len(cars_vertices) :
        /\ cars_vertices[k][3][1] <= car_vertices[1][1]
        /\ car_vertices[3][1] <= cars_vertices[k][1][1]
        /\ cars_vertices[k][3][2] <= car_vertices[1][2]
        /\ car_vertices[3][2] <= cars_vertices[k][1][2]

check_collision(cars_vertices, car_vertices) ==
    \E k \in 1..Len(cars_vertices) : \E i \in 1..4 :
        check_boundary(cars_vertices[k][1], cars_vertices[k][3], car_vertices[i])

check_max_distance(lot_vertices, car_loc) ==
    \E i \in 1..4 :
        \/ Abs(lot_vertices[i][1] - car_loc[1]) >= MAX_DISTANCE
        \/ Abs(lot_vertices[i][2] - car_loc[2]) >= MAX_DISTANCE

is_parking_successful(lot, car_loc) ==
    /\ Abs(lot[1] - car_loc[1]) <= CENTER_THRESHOLD
    /\ Abs(lot[2] - car_loc[2]) <= CENTER_THRESHOLD

----------------------------------------------------------------------------
(* Orientation penalty *)

\* as get_parking_angle, only the first heading returned for parallel
get_parking_angle_one_heading(ptype, sd) ==
    IF ptype = "perpendicular"
    THEN [list |-> FALSE,
          angles |-> IF sd = 1 THEN <<PI \div 2>>
                     ELSE IF sd = 2 THEN <<-(PI \div 2)>>
                     ELSE IF sd = 3 THEN <<0>>
                     ELSE <<PI>>]
    ELSE [list |-> FALSE,
          angles |-> IF sd \in {1, 2} THEN <<0>> ELSE <<PI \div 2>>]

\* get_parking_angle: a single angle for perpendicular, a list for parallel
get_parking_angle(ptype, sd) ==
    IF ptype = "perpendicular"
    THEN [list |-> FALSE,
          angles |-> IF sd = 1 THEN <<PI \div 2>>
                     ELSE IF sd = 2 THEN <<-(PI \div 2)>>
                     ELSE IF sd = 3 THEN <<0>>
                     ELSE <<PI>>]
    ELSE [list |-> TRUE,
          angles |-> IF sd \in {1, 2} THEN <<0, PI>>
                     ELSE <<PI \div 2, -(PI \div 2)>>]

\* as angle_error, without the reduction modulo 2 * PI
angle_error_no_wrap(psi, angle) == Abs(psi - angle)

\* abs((psi - angle + PI) % (2 * PI) - PI)
angle_error(psi, angle) == Abs(((psi - angle + PI) % (2 * PI)) - PI)

\* as calc_angle_dif, the penalty not capped at 0.5
calc_angle_dif_uncapped(psi, parking_angle) ==
    LET errs == {angle_error(psi, parking_angle.angles[k]) :
                    k \in 1..Len(parking_angle.angles)}
        err  == IF parking_angle.list
                THEN CHOOSE e \in errs : \A f \in errs : e <= f
                ELSE angle_error(psi, parking_angle.angles[1])
    IN  (500 * err) \div MAX_ANGLE_ERROR

\* calc_angle_dif, in thousandths
calc_angle_dif(psi, parking_angle) ==
    LET errs == {angle_error(psi, parking_angle.angles[k]) :
                    k \in 1..Len(parking_angle.angles)}
        err  == IF parking_angle.list
                THEN CHOOSE e \in errs : \A f \in errs : e <= f
                ELSE angle_error(psi, parking_angle.angles[1])
    IN  Min((500 * err) \div MAX_ANGLE_ERROR, 500)

----------------------------------------------------------------------------
(* Observation *)

\* transform_point(x, y, car_x, car_y, heading)
transform_point(x, y, car_x, car_y, heading) ==
    LET dx == x - car_x
        dy == y - car_y
        angle == heading - PI \div 2
    IN  <<RoundDiv(dx * Cos(-angle) - dy * Sin(-angle), 1000),
          RoundDiv(dx * Sin(-angle) + dy * Cos(-angle), 1000)>>

\* as Normalize, without line 317 (np.clip)
Normalize_unclipped(d) == RoundDiv(d * 1000, MAX_DISTANCE)

\* one component: divided by MAX_DISTANCE, clipped to [-1, 1] (thousandths)
Normalize(d) == Clip(RoundDiv(d * 1000, MAX_DISTANCE), -1000, 1000)

\* the ego-frame offset of point p
Ego(p, c) == transform_point(p[1], p[2], c.car_loc[1], c.car_loc[2], c.psi)

\* np.concatenate of the five offsets, normalised and clipped
Flatten(p1, p2, p3, p4, g) ==
    <<Normalize(p1[1]), Normalize(p1[2]), Normalize(p2[1]), Normalize(p2[2]),
      Normalize(p3[1]), Normalize(p3[2]), Normalize(p4[1]), Normalize(p4[2]),
      Normalize(g[1]), Normalize(g[2])>>

get_normalized_state(lot, lot_vertices, c) ==
    Flatten(Ego(lot_vertices[1], c), Ego(lot_vertices[2], c), Ego(lot_vertices[3], c),
            Ego(lot_vertices[4], c), Ego(lot, c))

----------------------------------------------------------------------------
(* Scenario strategies: BaseParking, ParallelParking, PerpendicularParking *)

init_dist == 7500
TRAIN_DIST == 4500

\* BaseParking.set_initial_loc
set_initial_loc(s) == randint(1, 4, s)

\* BaseParking.get_parking_struct
get_parking_struct(ptype, sd) ==
    IF ptype = "parallel"
    THEN (IF sd \in {1, 2} THEN PARALLEL_HORIZONTAL ELSE PARALLEL_VERTICAL)
    ELSE (IF sd \in {1, 2} THEN PERPENDICULAR_HORIZONTAL ELSE PERPENDICULAR_VERTICAL)

\* BaseParking.get_car_struct
get_car_struct(ptype, sd) ==
    IF ptype = "parallel"
    THEN (IF sd \in {1, 2} THEN CAR_STRUCT ELSE Rect(CAR_W \div 2, CAR_L \div 2))
    ELSE (IF sd \in {3, 4} THEN CAR_STRUCT ELSE Rect(CAR_W \div 2, CAR_L \div 2))

\* BaseParking.set_initial_car_loc, the uniform draw taken in generator state s
set_initial_car_loc(sd, parking_loc, s) ==
    IF sd = 1 THEN <<parking_loc[1] + uniform(-5000, 5000, s), parking_loc[2] + init_dist>>
    ELSE IF sd = 2 THEN <<parking_loc[1] + uniform(-5000, 5000, s), parking_loc[2] - init_dist>>
    ELSE IF sd = 3 THEN <<parking_loc[1] + init_dist, parking_loc[2] + uniform(-5000, 5000, s)>>
    ELSE <<parking_loc[1] - init_dist, parking_loc[2] + uniform(-5000, 5000, s)>>

\* BaseParking.set_initial_parking_loc, the uniform draw taken in generator state s
set_initial_parking_loc(sd, s) ==
    IF sd = 1 THEN <<uniform(100, WINDOW_W - 100, s) * PIXEL_TO_METER_SCALE,
                     50 * PIXEL_TO_METER_SCALE>>
    ELSE IF sd = 2 THEN <<uniform(100, WINDOW_W - 100, s) * PIXEL_TO_METER_SCALE,
                          550 * PIXEL_TO_METER_SCALE>>
    ELSE IF sd = 3 THEN <<50 * PIXEL_TO_METER_SCALE,
                          uniform(100, WINDOW_H - 100, s) * PIXEL_TO_METER_SCALE>>
    ELSE <<750 * PIXEL_TO_METER_SCALE,
           uniform(100, WINDOW_H - 100, s) * PIXEL_TO_METER_SCALE>>

\* ParallelParking.set_initial_heading / PerpendicularParking.set_initial_heading,
\* the np.random.uniform draw taken in generator state u
set_initial_heading(ptype, sd, u) ==
    IF sd = 1 THEN uniform((PI \div 12) * 5, (PI \div 12) * 7, u)
    ELSE IF sd = 2 THEN uniform(-(PI \div 12) * 7, -(PI \div 12) * 5, u)
    ELSE IF sd = 3 THEN uniform(-(PI \div 12), PI \div 12, u)
    ELSE IF ptype = "parallel"
         THEN uniform(-(PI \div 12) * 11, (PI \div 12) * 11, u)
         ELSE uniform(PI - PI \div 12, PI + PI \div 12, u)

\* as generate_static_obstacles, the cars at half the offset
generate_static_obstacles_half_offset(ptype, lot, sd) ==
    LET offset == (IF ptype = "parallel" THEN OFFSET_PARALLEL
                   ELSE OFFSET_PERPENDICULAR) \div 2
        static_cars_loc ==
            IF sd \in {1, 2}
            THEN << <<lot[1] + offset, lot[2]>>, <<lot[1] - offset, lot[2]>> >>
            ELSE << <<lot[1], lot[2] + offset>>, <<lot[1], lot[2] - offset>> >>
    IN  <<Translate(get_car_struct(ptype, sd), static_cars_loc[1]),
          Translate(get_car_struct(ptype, sd), static_cars_loc[2])>>

\* as generate_static_obstacles, the two branches on the side exchanged
generate_static_obstacles_along_approach(ptype, lot, sd) ==
    LET offset == IF ptype = "parallel" THEN OFFSET_PARALLEL ELSE OFFSET_PERPENDICULAR
        static_cars_loc ==
            IF sd \in {3, 4}
            THEN << <<lot[1] + offset, lot[2]>>, <<lot[1] - offset, lot[2]>> >>
            ELSE << <<lot[1], lot[2] + offset>>, <<lot[1], lot[2] - offset>> >>
    IN  <<Translate(get_car_struct(ptype, sd), static_cars_loc[1]),
          Translate(get_car_struct(ptype, sd), static_cars_loc[2])>>

\* generate_static_obstacles: the footprints of the two flanking cars
generate_static_obstacles(ptype, lot, sd) ==
    LET offset == IF ptype = "parallel" THEN OFFSET_PARALLEL ELSE OFFSET_PERPENDICULAR
        static_cars_loc ==
            IF sd \in {1, 2}
            THEN << <<lot[1] + offset, lot[2]>>, <<lot[1] - offset, lot[2]>> >>
            ELSE << <<lot[1], lot[2] + offset>>, <<lot[1], lot[2] - offset>> >>
    IN  <<Translate(get_car_struct(ptype, sd), static_cars_loc[1]),
          Translate(get_car_struct(ptype, sd), static_cars_loc[2])>>

\* sim_env.init_state.set_init_position(side, parking_type, randomized=True):
\* the poses the training initializer may supply
set_init_position(sd, ptype) ==
    LET lot == set_initial_parking_loc(sd, 2)
        heading == set_initial_heading(ptype, sd, 2)
    IN  { [car_loc |-> IF sd = 1 THEN <<lot[1] + j, lot[2] + TRAIN_DIST>>
                       ELSE IF sd = 2 THEN <<lot[1] + j, lot[2] - TRAIN_DIST>>
                       ELSE IF sd = 3 THEN <<lot[1] + TRAIN_DIST, lot[2] + j>>
                       ELSE <<lot[1] - TRAIN_DIST, lot[2] + j>>,
           parking_lot |-> lot,
           heading |-> heading] : j \in {0, 1000} }

----------------------------------------------------------------------------
(* Parking._reward: the record of what it returns and what it assigns *)

\* line 345: the step counter reaches the maximum
\* as ReachedMax, one step early
ReachedMax_early(run) == run >= MAX_STEPS - 1

\* as ReachedMax, one step late
ReachedMax_late(run) == run = MAX_STEPS + 1

ReachedMax(run) == run = MAX_STEPS

\* lines 346-350
\* as TimeoutResult, self.terminated left alone
TimeoutResult_not_terminated(run, term) ==
    [reward |-> -1000, terminated |-> term, truncated |-> TRUE, run_steps |-> run]

TimeoutResult(run, term) ==
    [reward |-> -1000, terminated |-> TRUE, truncated |-> TRUE, run_steps |-> run]

\* lines 354-357, 360-363, 367-370
\* as FailureResult, with the timeout branch's self.truncated = True copied in
FailureResult_truncates(run, trunc) ==
    [reward |-> -1000, terminated |-> TRUE, truncated |-> TRUE, run_steps |-> run]

FailureResult(run, trunc) ==
    [reward |-> -1000, terminated |-> TRUE, truncated |-> trunc, run_steps |-> run]

\* lines 373-374: within the slot and centred
\* as ParkedOk, without the centring test
ParkedOk_not_centred(lot, lot_vertices, c) ==
    is_car_in_parking_lot(lot_vertices, c.car_vertices)

ParkedOk(lot, lot_vertices, c) ==
    /\ is_car_in_parking_lot(lot_vertices, c.car_vertices)
    /\ is_parking_successful(lot, c.car_loc)

\* lines 375-384
SuccessResult(ptype, sd, c, run, trunc) ==
    [reward |-> 1000 - calc_angle_dif(c.psi, get_parking_angle(ptype, sd)),
     terminated |-> TRUE, truncated |-> trunc, run_steps |-> run]

\* as NoRuleResult, a cost of -1 for a step that matches no rule
NoRuleResult_step_cost(run, term, trunc) ==
    [reward |-> -1000, terminated |-> term, truncated |-> trunc, run_steps |-> run]

\* as NoRuleResult, the flags cleared when no rule matches
NoRuleResult_clears(run, term, trunc) ==
    [reward |-> 0, terminated |-> FALSE, truncated |-> FALSE, run_steps |-> run]

\* line 385
NoRuleResult(run, term, trunc) ==
    [reward |-> 0, terminated |-> term, truncated |-> trunc, run_steps |-> run]

\* as _reward, the timeout branch without its return: the flags are set and the
\* later rules go on adding to the reward
_reward_no_return(ptype, sd, lot, lot_vertices, cars_vertices, c, steps, term, trunc) ==
    LET run == steps + 1
        hit == ReachedMax(run)
        base == IF hit THEN -1000 ELSE 0
        rest == IF check_cross_border(sd, lot_vertices, c.car_vertices)
                THEN FailureResult(run, trunc)
                ELSE IF check_max_distance(lot_vertices, c.car_loc)
                THEN FailureResult(run, trunc)
                ELSE IF check_collision(cars_vertices, c.car_vertices)
                THEN FailureResult(run, trunc)
                ELSE IF ParkedOk(lot, lot_vertices, c)
                THEN SuccessResult(ptype, sd, c, run, trunc)
                ELSE NoRuleResult(run, term, trunc)
    IN  [reward |-> base + rest.reward,
         terminated |-> hit \/ rest.terminated,
         truncated |-> hit \/ rest.truncated,
         run_steps |-> run]

_reward(ptype, sd, lot, lot_vertices, cars_vertices, c, steps, term, trunc) ==
    LET run == steps + 1
    IN  IF ReachedMax(run)
        THEN TimeoutResult(run, term)
        ELSE IF check_cross_border(sd, lot_vertices, c.car_vertices)
        THEN FailureResult(run, trunc)
        ELSE IF check_max_distance(lot_vertices, c.car_loc)
        THEN FailureResult(run, trunc)
        ELSE IF check_collision(cars_vertices, c.car_vertices)
        THEN FailureResult(run, trunc)
        ELSE IF ParkedOk(lot, lot_vertices, c)
        THEN SuccessResult(ptype, sd, c, run, trunc)
        ELSE NoRuleResult(run, term, trunc)

----------------------------------------------------------------------------
(* Parking.__init__ *)

NoPoint == <<0, 0>>
NoVertices == <<NoPoint, NoPoint, NoPoint, NoPoint>>
NoCar == [car_loc |-> NoPoint, loc_old |-> NoPoint, psi |-> 0, v |-> 0,
          car_vertices |-> NoVertices]
NoResult == [call |-> "none"]

\* TRUE once reset has built an episode (before, self.car and the rest do not exist)
HasEpisode == side # 0

Init ==
    /\ parking_type \in {"parallel", "perpendicular"}
    /\ action_type \in {"continuous", "discrete"}
    /\ training_mode \in {"on", "off"}
    /\ py_random \in PyStates
    /\ np_global \in NpStates
    /\ np_random = 0
    /\ side = 0
    /\ parking_lot = NoPoint
    /\ parking_lot_vertices = NoVertices
    /\ static_cars_vertices = <<NoVertices, NoVertices>>
    /\ car = NoCar
    /\ state = <<0, 0, 0, 0, 0, 0, 0, 0, 0, 0>>
    /\ terminated = FALSE
    /\ truncated = FALSE
    /\ run_steps = 0
    /\ ret = "init"
    /\ reward = 0
    /\ info = {}
    /\ result = NoResult

----------------------------------------------------------------------------
(* Parking.reset(seed) *)

\* generator state after n draws
Advance(s, n, States) == (s + n) % Cardinality(States)

\* as AcceptedDraw, the loop left after the first draw
AcceptedDraw_first(sd, lot, lot_vertices, s) == 0

\* the while loop of reset: the index of the first car location draw (taken in
\* generator states s, s+1, ...) that passes the distance test; the number of
\* generator states when none does (the loop then never ends)
AcceptedDraw(sd, lot, lot_vertices, s) ==
    LET n == Cardinality(PyStates)
        ok == {k \in 0..(n - 1) :
                  ~check_max_distance(lot_vertices,
                        set_initial_car_loc(sd, lot, Advance(s, k, PyStates)))}
    IN  IF ok = {} THEN n ELSE CHOOSE k \in ok : \A j \in ok : k <= j

\* as Build, without line 271 (self.run_steps = 0)
Build_keeps_counter(sd, lot, lot_vertices, c) ==
    /\ side' = sd
    /\ parking_lot' = lot
    /\ parking_lot_vertices' = lot_vertices
    /\ car' = [c EXCEPT !.loc_old = c.car_loc]
    /\ static_cars_vertices' = generate_static_obstacles(parking_type, lot, sd)
    /\ state' = get_normalized_state(lot, lot_vertices, c)
    /\ terminated' = FALSE
    /\ truncated' = FALSE
    /\ run_steps' = run_steps
    /\ ret' = "reset"
    /\ info' = {}

\* the assignments common to both branches of reset (lines 264-271) and the
\* return of line 280: an empty info, no reward
Build(sd, lot, lot_vertices, c) ==
    /\ side' = sd
    /\ parking_lot' = lot
    /\ parking_lot_vertices' = lot_vertices
    /\ car' = [c EXCEPT !.loc_old = c.car_loc]
    /\ static_cars_vertices' = generate_static_obstacles(parking_type, lot, sd)
    /\ state' = get_normalized_state(lot, lot_vertices, c)
    /\ terminated' = FALSE
    /\ truncated' = FALSE
    /\ run_steps' = 0
    /\ ret' = "reset"
    /\ info' = {}

\* super().reset(seed=seed): seeds the env's own generator
SeedEnv(seed) == np_random' = seed

ResetOff(seed) ==
    /\ training_mode = "off"
    /\ SeedEnv(seed)
    /\ \E sd \in {set_initial_loc(py_random)} :
       \E lot \in {set_initial_parking_loc(sd, Advance(py_random, 1, PyStates))} :
       \E lot_vertices \in {Translate(get_parking_struct(parking_type, sd), lot)} :
       \E k \in {AcceptedDraw(sd, lot, lot_vertices, Advance(py_random, 2, PyStates))} :
           /\ k < Cardinality(PyStates)
           /\ py_random' = Advance(py_random, k + 3, PyStates)
           /\ np_global' = Advance(np_global, 1, NpStates)
           /\ Build(sd, lot, lot_vertices,
                    Car(set_initial_car_loc(sd, lot, Advance(py_random, k + 2, PyStates)),
                        set_initial_heading(parking_type, sd, np_global)))
    /\ UNCHANGED <<config, reward, result>>

ResetOn(seed) ==
    /\ training_mode = "on"
    /\ SeedEnv(seed)
    /\ \E sd \in {set_initial_loc(py_random)} :
       \E p \in set_init_position(sd, parking_type) :
           /\ py_random' = Advance(py_random, 1, PyStates)
           /\ Build(sd, p.parking_lot,
                    Translate(get_parking_struct(parking_type, sd), p.parking_lot),
                    Car(p.car_loc, p.heading))
    /\ UNCHANGED <<config, np_global, reward, result>>

Reset ==
    \E seed \in Seeds : ResetOff(seed) \/ ResetOn(seed)

----------------------------------------------------------------------------
(* Parking.step(action) *)

\* the six discrete actions, as <<acceleration, steering angle>>
DiscreteAction(a) ==
    IF a = 0 THEN <<1, 0>>
    ELSE IF a = 1 THEN <<1, -(PI \div 6)>>
    ELSE IF a = 2 THEN <<1, PI \div 6>>
    ELSE IF a = 3 THEN <<-1, 0>>
    ELSE IF a = 4 THEN <<-1, -(PI \div 6)>>
    ELSE <<-1, PI \div 6>>

\* np.clip(action, [-1, -1], [1, 1]) * [ACCELERATION_LIMIT, STEERING_LIMIT]
ContinuousAction(a) ==
    <<Clip(a[1], -1, 1) * ACCELERATION_LIMIT, Clip(a[2], -1, 1) * STEERING_LIMIT>>

\* what a caller may pass
DiscreteInputs == -1..6
ContinuousInputs == {<<-2, 0>>, <<1, 1>>, <<0, -1>>}

\* as Raise, the action validated after line 123 has run
Raise_after_loc_old(exc) ==
    /\ ret' = exc
    /\ car' = [car EXCEPT !.loc_old = car.car_loc]
    /\ UNCHANGED <<config, rngs, scenario, state, flags, reward, info, result>>

\* the call raises: nothing is assigned
Raise(exc) ==
    /\ ret' = exc
    /\ UNCHANGED <<config, rngs, scenario, car, state, flags, reward, info, result>>

\* as Act, the info built before _reward has counted the step
Act_stale_info(act) ==
    \E c \in {kinematic_act([car EXCEPT !.loc_old = car.car_loc], act)} :
    \E r \in {_reward(parking_type, side, parking_lot, parking_lot_vertices,
                      static_cars_vertices, c, run_steps, terminated, truncated)} :
        /\ car' = c
        /\ run_steps' = r.run_steps
        /\ terminated' = r.terminated
        /\ truncated' = r.truncated
        /\ reward' = r.reward
        /\ state' = get_normalized_state(parking_lot, parking_lot_vertices, c)
        /\ ret' = "step"
        /\ info' = {<<"step", run_steps>>}
        /\ UNCHANGED <<config, rngs, scenario, result>>

\* as Act, transform_point subtracting the car position from the slot corners
\* in place
Act_in_place(act) ==
    \E c \in {kinematic_act([car EXCEPT !.loc_old = car.car_loc], act)} :
    \E r \in {_reward(parking_type, side, parking_lot, parking_lot_vertices,
                      static_cars_vertices, c, run_steps, terminated, truncated)} :
        /\ car' = c
        /\ run_steps' = r.run_steps
        /\ terminated' = r.terminated
        /\ truncated' = r.truncated
        /\ reward' = r.reward
        /\ state' = get_normalized_state(parking_lot, parking_lot_vertices, c)
        /\ ret' = "step"
        /\ info' = {<<"step", run_steps'>>}
        /\ parking_lot_vertices' =
               Translate(parking_lot_vertices, <<-c.car_loc[1], -c.car_loc[2]>>)
        /\ UNCHANGED <<config, rngs, side, parking_lot, static_cars_vertices, result>>

\* lines 123-131: move the car, compute the reward, store the observation
Act(act) ==
    \E c \in {kinematic_act([car EXCEPT !.loc_old = car.car_loc], act)} :
    \E r \in {_reward(parking_type, side, parking_lot, parking_lot_vertices,
                      static_cars_vertices, c, run_steps, terminated, truncated)} :
        /\ car' = c
        /\ run_steps' = r.run_steps
        /\ terminated' = r.terminated
        /\ truncated' = r.truncated
        /\ reward' = r.reward
        /\ state' = get_normalized_state(parking_lot, parking_lot_vertices, c)
        /\ ret' = "step"
        /\ info' = {<<"step", run_steps'>>}
        /\ UNCHANGED <<config, rngs, scenario, result>>

\* step(None): the body is skipped and the return statement reads `reward`,
\* which was never assigned
StepNone ==
    IF HasEpisode THEN Raise("UnboundLocalError") ELSE Raise("AttributeError")

StepDiscrete ==
    /\ action_type = "discrete"
    /\ \E a \in DiscreteInputs :
          IF a \notin 0..5 THEN Raise("ValueError")
          ELSE IF ~HasEpisode THEN Raise("AttributeError")
          ELSE run_steps < MaxRunSteps /\ Act(DiscreteAction(a))

StepContinuous ==
    /\ action_type = "continuous"
    /\ \E a \in ContinuousInputs :
          IF ~HasEpisode THEN Raise("AttributeError")
          ELSE run_steps < MaxRunSteps /\ Act(ContinuousAction(a))

Step == StepNone \/ StepDiscrete \/ StepContinuous

Next == Reset \/ Step

Spec == Init /\ [][Next]_vars

----------------------------------------------------------------------------
(* The predicates of _reward, on the current vehicle state *)

Timeout == run_steps = MAX_STEPS
CrossesBorder == check_cross_border(side, parking_lot_vertices, car.car_vertices)
ExceedsMaxDistance == check_max_distance(parking_lot_vertices, car.car_loc)
Collides == check_collision(static_cars_vertices, car.car_vertices)
Failure == CrossesBorder \/ ExceedsMaxDistance \/ Collides
WithinSlot == is_car_in_parking_lot(parking_lot_vertices, car.car_vertices)
Centred == is_parking_successful(parking_lot, car.car_loc)

\* the last call was a step that returned normally
Returned == ret = "step"

\* this transition is a step call that returns normally
StepReturns == run_steps' = run_steps + 1

----------------------------------------------------------------------------
(* Claims *)

\* C1: a step call in which the step counter reaches MAX_STEPS returns reward
\* exactly -1 with terminated and truncated both true, whatever the footprint.
C1_TimeoutPrecedence ==
    (Returned /\ Timeout) => (reward = -1000 /\ terminated /\ truncated)

\* the step counter reaches MAX_STEPS with the vehicle parked and centred
C1_Witness == Returned /\ Timeout /\ WithinSlot /\ Centred

\* C2: a step call in which the counter does not reach MAX_STEPS and a failure
\* predicate holds for the updated vehicle returns reward -1 with terminated
\* true and leaves truncated as it was.
C2_FailureRule ==
    [][(StepReturns /\ ~Timeout' /\ Failure')
        => (reward' = -1000 /\ terminated' /\ truncated' = truncated)]_vars

\* a collision before the step budget is used up
C2_Witness == Returned /\ ~Timeout /\ Collides /\ ~truncated

\* C3: with no earlier rule matched, a vehicle within the slot and centred
\* terminates the episode with reward 1 - penalty, 0 <= penalty <= 0.5.
C3_SuccessReward ==
    (Returned /\ ~Timeout /\ ~Failure /\ WithinSlot /\ Centred)
        => /\ terminated
           /\ reward = 1000 - calc_angle_dif(car.psi, get_parking_angle(parking_type, side))
           /\ 500 <= reward /\ reward <= 1000

\* a successful park with the largest penalty
C3_Witness ==
    Returned /\ ~Timeout /\ ~Failure /\ WithinSlot /\ Centred /\ reward = 500

\* C4: a step returns a reward greater than 0 only if the vehicle it produced is
\* within the slot, centred, and no failure predicate holds.
C4_SuccessOnlyIfParked ==
    (Returned /\ reward > 0) => (WithinSlot /\ Centred /\ ~Failure)

\* a step that returned a positive reward
C4_Witness == Returned /\ reward > 0 /\ reward < 1000

\* C5: a step taken while Running in which no timeout or failure rule matches
\* and the vehicle is not both within the slot and centred returns reward 0 and
\* leaves terminated and truncated false.
C5_RunningContinues ==
    [][(StepReturns /\ ~terminated /\ ~truncated /\ ~Timeout' /\ ~Failure'
            /\ ~(WithinSlot' /\ Centred'))
        => (reward' = 0 /\ ~terminated' /\ ~truncated')]_vars

\* a step that left the vehicle within the slot but not centred
C5_Witness ==
    Returned /\ ~Timeout /\ ~Failure /\ WithinSlot /\ ~Centred /\ ~terminated

\* C6: once a step has returned terminated = true, every later step call before
\* the next reset returns the same (terminated, truncated) pair.
C6_Absorbing ==
    [][(StepReturns /\ terminated)
        => (terminated' = terminated /\ truncated' = truncated)]_vars

\* C7: truncated implies terminated and implies that the step counter has
\* reached MAX_STEPS in this episode.
C7_TruncatedOnlyOnTimeout ==
    truncated => (terminated /\ run_steps >= MAX_STEPS)

\* a truncated episode
C7_Witness == Returned /\ truncated

\* C8: a step call that fails with the invalid-action error leaves the step
\* counter, the flags, the vehicle (previous-step position included) and the
\* stored observation as they were.
C8_InvalidActionNoEffect ==
    [][(ret' = "ValueError")
        => UNCHANGED <<run_steps, terminated, truncated, car, state, scenario>>]_vars

\* an invalid action rejected in the middle of an episode, the vehicle having moved
C8_Witness ==
    ret = "ValueError" /\ run_steps >= 1 /\ car.loc_old # car.car_loc

\* C9: on a freshly reset episode, a first step called with a null action
\* returns normally: no call made right after reset ends in an error other
\* than the invalid-action error.
C9_NullActionReturns ==
    [][(ret = "reset") => (ret' \in {"reset", "step", "ValueError"})]_vars

\* C10: the scenario is determined by the seed passed to reset: a reset called
\* with the seed the previous reset was called with builds the same scenario
\* (side, slot position, slot footprint, obstacles).
C10_SeedDeterminesScenario ==
    [][((\E seed \in Seeds : ResetOff(seed)) /\ np_random' = np_random)
        => (side' = side /\ parking_lot' = parking_lot
            /\ parking_lot_vertices' = parking_lot_vertices
            /\ static_cars_vertices' = static_cars_vertices)]_vars

----------------------------------------------------------------------------
(* The episode that reset builds *)

\* the attributes of the Episode, as they are now
Episode ==
    [side |-> side, parking_lot |-> parking_lot,
     parking_lot_vertices |-> parking_lot_vertices,
     static_cars_vertices |-> static_cars_vertices,
     car |-> car, state |-> state,
     terminated |-> terminated, truncated |-> truncated, run_steps |-> run_steps]

\* lines 264-271 applied to a scenario and a new Car
NewEpisode(ptype, sd, lot, lot_vertices, c) ==
    [side |-> sd, parking_lot |-> lot,
     parking_lot_vertices |-> lot_vertices,
     static_cars_vertices |-> generate_static_obstacles(ptype, lot, sd),
     car |-> [c EXCEPT !.loc_old = c.car_loc],
     state |-> get_normalized_state(lot, lot_vertices, c),
     terminated |-> FALSE, truncated |-> FALSE, run_steps |-> 0]

\* lines 246-271 run on an object that has only been constructed: the episodes
\* reset can build from the configuration and the two global generators in
\* states py and npg
FreshEpisodes(ptype, mode, py, npg) ==
    LET sd == set_initial_loc(py)
        lot == set_initial_parking_loc(sd, Advance(py, 1, PyStates))
        lot_vertices == Translate(get_parking_struct(ptype, sd), lot)
        k == AcceptedDraw(sd, lot, lot_vertices, Advance(py, 2, PyStates))
    IN  IF mode = "off"
        THEN {NewEpisode(ptype, sd, lot, lot_vertices,
                         Car(set_initial_car_loc(sd, lot, Advance(py, k + 2, PyStates)),
                             set_initial_heading(ptype, sd, npg)))}
        ELSE {NewEpisode(ptype, sd, p.parking_lot,
                         Translate(get_parking_struct(ptype, sd), p.parking_lot),
                         Car(p.car_loc, p.heading)) :
                 p \in set_init_position(sd, ptype)}

\* C11: after any reset, whatever the state it is called in, terminated and
\* truncated are false, the step counter is 0, and the episode is one that reset
\* builds from the configuration and the generators alone: nothing of the
\* previous episode is left in what the termination rules read.
C11_ResetRebuilds ==
    [][(ret' = "reset")
        => /\ ~terminated' /\ ~truncated' /\ run_steps' = 0
           /\ Episode' \in FreshEpisodes(parking_type, training_mode,
                                         py_random, np_global)]_vars

\* a reset made after a step has ended an episode with reward -1
C11_Witness ==
    ret = "reset" /\ reward = -1000 /\ run_steps = 0 /\ ~terminated /\ ~truncated

\* C12: a step call that returns normally increments the step counter by
\* exactly 1 and returns it as info.step; a call that fails leaves the counter
\* alone; reset puts it at 0.  Hence the k-th returning step since the last
\* reset returns info.step = k.
C12_InfoStepCounts ==
    [][/\ (ret' = "step")
            => (run_steps' = run_steps + 1 /\ info' = {<<"step", run_steps + 1>>})
       /\ (ret' = "reset") => run_steps' = 0
       /\ (ret' \notin {"step", "reset"}) => run_steps' = run_steps]_vars

\* the second returning step of an episode
C12_Witness ==
    Returned /\ info = {<<"step", 2>>} /\ run_steps = 2 /\ ~terminated

\* an ego-frame offset of a slot corner or of the slot centre, before it is
\* normalised, is larger than MAX_DISTANCE
OffsetBeyondRange ==
    \E p \in {parking_lot_vertices[1], parking_lot_vertices[2],
               parking_lot_vertices[3], parking_lot_vertices[4], parking_lot} :
        \E j \in 1..2 : Abs(Ego(p, car)[j]) > MAX_DISTANCE

C20_EndsWithinBudget ==
    (HasEpisode /\ run_steps >= MAX_STEPS) => terminated

\* an episode ended by the step budget alone: no failure, not parked
C20_Witness ==
    /\ Returned /\ run_steps = MAX_STEPS /\ terminated
    /\ ~Failure /\ ~(WithinSlot /\ Centred)

----------------------------------------------------------------------------
(* The geometric helpers called on their own: a scenario is laid out, a     *)
(* vehicle footprint is put on the map, the obstacles are generated and the *)
(* predicates of _reward are evaluated on the footprint.                    *)

\* where the vehicle is put, as offsets from the slot centre: on the centre,
\* against a slot edge from inside, on a slot edge, on either obstacle
CentreOffsets == {-7000, -4500, -3000, -1000, 0, 1000, 3000, 4500, 7000}

\* the headings it is given
FootprintHeadings == {0, 1, PI \div 2}

\* a vehicle whose footprint is the rectangle of half extents hx, hy around loc
Box(loc, hx, hy) ==
    [car_loc |-> loc, loc_old |-> loc, psi |-> 0, v |-> 0,
     car_vertices |-> Translate(Rect(hx, hy), loc)]

\* the vehicles tried around slot centre lot: the Car at each heading, and a
\* body larger than an obstacle car
Footprints(lot) ==
    {Car(<<lot[1] + dx, lot[2] + dy>>, psi) :
        dx \in CentreOffsets, dy \in CentreOffsets, psi \in FootprintHeadings}
    \cup {Box(<<lot[1] + dx, lot[2] + dy>>, CAR_L \div 2 + 1000, CAR_L \div 2 + 1000) :
        dx \in CentreOffsets, dy \in CentreOffsets}

GeometryInit ==
    /\ parking_type \in {"parallel", "perpendicular"}
    /\ action_type = "discrete"
    /\ training_mode = "off"
    /\ py_random = 0
    /\ np_global = 0
    /\ np_random = 0
    /\ side \in 1..4
    /\ parking_lot \in {set_initial_parking_loc(side, s) : s \in PyStates}
    /\ parking_lot_vertices = Translate(get_parking_struct(parking_type, side), parking_lot)
    /\ static_cars_vertices = <<NoVertices, NoVertices>>
    /\ car \in Footprints(parking_lot)
    /\ state = <<0, 0, 0, 0, 0, 0, 0, 0, 0, 0>>
    /\ terminated = FALSE
    /\ truncated = FALSE
    /\ run_steps = 0
    /\ ret = "init"
    /\ reward = 0
    /\ info = {}
    /\ result = NoResult

\* parking_strategy.generate_static_obstacles(parking_lot, side), as reset
\* calls it
GenerateObstacles ==
    /\ ret = "init"
    /\ static_cars_vertices' = generate_static_obstacles(parking_type, parking_lot, side)
    /\ ret' = "generate_static_obstacles"
    /\ UNCHANGED <<config, rngs, side, parking_lot, parking_lot_vertices, car,
                   state, flags, reward, info, result>>

\* check_cross_border(), check_collision() and is_car_in_parking_lot() called
\* on the footprint
CheckFootprint ==
    /\ ret = "generate_static_obstacles"
    /\ result' = [call |-> "geometry",
                  crosses |-> check_cross_border(side, parking_lot_vertices,
                                                 car.car_vertices),
                  collides |-> check_collision(static_cars_vertices, car.car_vertices),
                  within |-> is_car_in_parking_lot(parking_lot_vertices,
                                                   car.car_vertices)]
    /\ ret' = "checked"
    /\ UNCHANGED <<config, rngs, scenario, car, state, flags, reward, info>>

GeometryNext == GenerateObstacles \/ CheckFootprint

GeometrySpec == GeometryInit /\ [][GeometryNext]_vars

\* the predicates have been evaluated on the footprint
Checked == ret = "checked"

\* a corner of the footprint lies on the slot edge that check_cross_border
\* tests for this side
OnBorderEdge ==
    \E i \in 1..4 :
        IF side = 1 THEN car.car_vertices[i][2] = parking_lot_vertices[3][2]
        ELSE IF side = 2 THEN car.car_vertices[i][2] = parking_lot_vertices[1][2]
        ELSE IF side = 3 THEN car.car_vertices[i][1] = parking_lot_vertices[3][1]
        ELSE car.car_vertices[i][1] = parking_lot_vertices[1][1]

\* C13: for every side and every footprint whose four corners are within the
\* slot rectangle, edges included, check_cross_border is false.
C13_SideConsistent ==
    (Checked /\ result.within) => ~result.crosses

\* a footprint within the slot with a corner on the border edge of its side
C13_Witness == Checked /\ result.within /\ OnBorderEdge

\* the obstacles have been generated
Generated == ret \in {"generate_static_obstacles", "checked"}

\* rectangles a and b, each given by its four corners (top right first, bottom
\* left third), have a point in common
RectsOverlap(a, b) ==
    /\ a[3][1] <= b[1][1] /\ b[3][1] <= a[1][1]
    /\ a[3][2] <= b[1][2] /\ b[3][2] <= a[1][2]

ContainsPoint(tr, bl, p) ==
    bl[1] <= p[1] /\ p[1] <= tr[1] /\ bl[2] <= p[2] /\ p[2] <= tr[2]

\* some corner of the vehicle is contained in some obstacle
CornerInObstacle ==
    \E k \in 1..Len(static_cars_vertices) : \E i \in 1..4 :
        ContainsPoint(static_cars_vertices[k][1], static_cars_vertices[k][3],
                      car.car_vertices[i])

\* the vehicle rectangle strictly contains an obstacle rectangle
ContainsObstacle ==
    \E k \in 1..Len(static_cars_vertices) :
        /\ car.car_vertices[3][1] < static_cars_vertices[k][3][1]
        /\ static_cars_vertices[k][1][1] < car.car_vertices[1][1]
        /\ car.car_vertices[3][2] < static_cars_vertices[k][3][2]
        /\ static_cars_vertices[k][1][2] < car.car_vertices[1][2]

\* C15: check_collision is true if and only if at least one of the four vehicle
\* corners is contained, bounds included, in the rectangle of at least one
\* obstacle; so it is false for a vehicle rectangle that strictly contains an
\* obstacle and has no corner in one.
C15_CornerContainment ==
    Checked =>
        /\ result.collides <=> CornerInObstacle
        /\ (ContainsObstacle /\ ~CornerInObstacle) => ~result.collides

\* a vehicle rectangle around an obstacle, found not to collide
C15_Witness == Checked /\ ContainsObstacle /\ ~result.collides

\* the centre of a footprint
Centre(v) == <<(v[1][1] + v[3][1]) \div 2, (v[1][2] + v[3][2]) \div 2>>

\* the offset of the strategy
OffsetOf(ptype) ==
    IF ptype = "parallel" THEN OFFSET_PARALLEL ELSE OFFSET_PERPENDICULAR

\* C16: generate_static_obstacles returns exactly two vehicle footprints,
\* centred at the slot centre plus and minus the offset along x for sides 1
\* and 2 and along y for sides 3 and 4, the other coordinate that of the slot
\* centre, for the parallel and the perpendicular strategy.
C16_TwoFlankingObstacles ==
    Generated =>
        /\ Len(static_cars_vertices) = 2
        /\ \A k \in 1..2 : static_cars_vertices[k] =
               Translate(get_car_struct(parking_type, side),
                         Centre(static_cars_vertices[k]))
        /\ IF side \in {1, 2}
           THEN /\ Centre(static_cars_vertices[1]) =
                      <<parking_lot[1] + OffsetOf(parking_type), parking_lot[2]>>
                /\ Centre(static_cars_vertices[2]) =
                      <<parking_lot[1] - OffsetOf(parking_type), parking_lot[2]>>
           ELSE /\ Centre(static_cars_vertices[1]) =
                      <<parking_lot[1], parking_lot[2] + OffsetOf(parking_type)>>
                /\ Centre(static_cars_vertices[2]) =
                      <<parking_lot[1], parking_lot[2] - OffsetOf(parking_type)>>

\* the obstacles of a perpendicular slot on side 4
C16_Witness ==
    /\ ret = "generate_static_obstacles"
    /\ parking_type = "perpendicular" /\ side = 4
    /\ Centre(static_cars_vertices[1])[2] = parking_lot[2] + OFFSET_PERPENDICULAR

----------------------------------------------------------------------------
(* The orientation penalty called on its own: a vehicle of some heading is  *)
(* taken as parked, the success branch of _reward computes its penalty and  *)
(* reward, and the vehicle is given one more full turn.                     *)

\* headings range over -MaxPsi..MaxPsi (units of pi/12)
MaxPsi == 36

AngleInit ==
    /\ parking_type \in {"parallel", "perpendicular"}
    /\ action_type = "discrete"
    /\ training_mode = "off"
    /\ py_random = 0
    /\ np_global = 0
    /\ np_random = 0
    /\ side \in 1..4
    /\ parking_lot = NoPoint
    /\ parking_lot_vertices = NoVertices
    /\ static_cars_vertices = <<NoVertices, NoVertices>>
    /\ \E psi \in (-MaxPsi)..MaxPsi : car = Car(NoPoint, psi)
    /\ state = <<0, 0, 0, 0, 0, 0, 0, 0, 0, 0>>
    /\ terminated = FALSE
    /\ truncated = FALSE
    /\ run_steps = 0
    /\ ret = "init"
    /\ reward = 0
    /\ info = {}
    /\ result = [call |-> "calc_angle_dif", values |-> {}]

\* lines 375-384 for the vehicle as it is: the penalty of calc_angle_dif and
\* the reward, recorded with the heading they were computed for
CalcAngleDif ==
    /\ result' = [result EXCEPT !.values = @ \cup
            {[psi |-> car.psi,
              penalty |-> calc_angle_dif(car.psi,
                                         get_parking_angle(parking_type, side)),
              reward |-> SuccessResult(parking_type, side, car, run_steps,
                                       truncated).reward]}]
    /\ ret' = "calc_angle_dif"
    /\ UNCHANGED <<config, rngs, scenario, car, state, flags, reward, info>>

\* the heading grows by 2 * PI
FullTurn ==
    /\ car.psi + 2 * PI <= MaxPsi
    /\ car' = [car EXCEPT !.psi = @ + 2 * PI,
                          !.car_vertices = CarVertices(car.car_loc, car.psi + 2 * PI)]
    /\ ret' = "turn"
    /\ UNCHANGED <<config, rngs, scenario, state, flags, reward, info, result>>

AngleNext == CalcAngleDif \/ FullTurn

AngleSpec == AngleInit /\ [][AngleNext]_vars

\* the acceptable headings of a slot
TargetHeadings(ptype, sd) ==
    IF ptype = "perpendicular"
    THEN (IF sd = 1 THEN {PI \div 2}
          ELSE IF sd = 2 THEN {-(PI \div 2)}
          ELSE IF sd = 3 THEN {0}
          ELSE {PI})
    ELSE (IF sd \in {1, 2} THEN {0, PI} ELSE {PI \div 2, -(PI \div 2)})

\* psi equals one of the acceptable headings modulo 2 * PI
OnTarget(psi) ==
    \E t \in TargetHeadings(parking_type, side) : (psi - t) % (2 * PI) = 0

\* C17: for every type, side and heading psi the penalty computed on success
\* is 0 if and only if psi equals, modulo 2 * pi, an acceptable heading of the
\* slot (perpendicular: pi/2, -pi/2, 0, pi for sides 1..4; parallel: 0 or pi
\* for sides 1 and 2, pi/2 or -pi/2 for sides 3 and 4), and the reward of a
\* park with such a heading is exactly 1.
C17_ZeroPenaltyOnTarget ==
    \A r \in result.values :
        /\ r.penalty = 0 <=> OnTarget(r.psi)
        /\ OnTarget(r.psi) => r.reward = 1000

\* a parallel slot entered facing the second acceptable heading, full turns
\* away from it
C17_Witness ==
    \E r \in result.values :
        /\ parking_type = "parallel"
        /\ r.penalty = 0 /\ r.reward = 1000
        /\ r.psi \notin TargetHeadings(parking_type, side)
        /\ (r.psi - PI) % (2 * PI) = 0

\* C18: calc_angle_dif(psi + 2 * pi, target) = calc_angle_dif(psi, target) for
\* every heading and every target, single heading or pair of headings.
C18_WrapAround ==
    \A r \in result.values : \A q \in result.values :
        (q.psi = r.psi + 2 * PI) => q.penalty = r.penalty

\* the same penalty, neither 0 nor the cap, computed before and after a turn
C18_Witness ==
    \E r \in result.values : \E q \in result.values :
        /\ q.psi = r.psi + 2 * PI
        /\ q.penalty = r.penalty
        /\ 0 < r.penalty /\ r.penalty < 500

----------------------------------------------------------------------------
(* The environment driven past the step budget: the caller goes on calling  *)
(* step after the episode has ended, with a few of the actions.             *)

\* step calls explored per episode when the caller goes on after the end
LongRunSteps == 5

\* the actions passed: forward and backward for a discrete action space,
\* backward and forward with steering for a continuous one
LongDiscreteInputs == {0, 3}
LongContinuousInputs == {<<-2, 0>>, <<1, 1>>}

StepOn ==
    /\ HasEpisode
    /\ run_steps < LongRunSteps
    /\ IF action_type = "discrete"
       THEN \E a \in LongDiscreteInputs : Act(DiscreteAction(a))
       ELSE \E a \in LongContinuousInputs : Act(ContinuousAction(a))

LongNext == Reset \/ StepOn

LongSpec == Init /\ [][LongNext]_vars

\* C21: no step call changes terminated or truncated from true to false; only
\* reset clears them.
C21_FlagsMonotone ==
    [][(ret' # "reset")
        => ((terminated => terminated') /\ (truncated => truncated'))]_vars

\* a step made after the timeout that matched no rule: both flags still true
C21_Witness ==
    /\ Returned /\ run_steps > MAX_STEPS /\ reward = 0
    /\ terminated /\ truncated

\* C22: every step call that returns a nonzero reward returns terminated =
\* true, no step returns a reward below -1, and a reward of -1 is returned only
\* by a step in which the timeout rule or a failure predicate matched.
C22_RewardFlagCoupling ==
    Returned =>
        /\ (reward # 0) => terminated
        /\ reward >= -1000
        /\ (reward = -1000) => (Timeout \/ Failure)

\* a reward of -1 for leaving the range, with the step budget not used up
C22_Witness ==
    /\ Returned /\ reward = -1000 /\ terminated
    /\ ~Timeout /\ ExceedsMaxDistance /\ ~CrossesBorder /\ ~Collides

\* C23: a step call, returning or failing, leaves the side, the slot centre,
\* the slot footprint and the two obstacle footprints built by reset unchanged.
C23_StepKeepsScenario ==
    [][(ret' # "reset") => UNCHANGED scenario]_vars

\* the vehicle has been moved twice and the scenario is as reset built it
C23_Witness ==
    /\ Returned /\ run_steps >= 2 /\ car.car_loc # car.loc_old
    /\ parking_lot_vertices = Translate(get_parking_struct(parking_type, side),
                                        parking_lot)
    /\ static_cars_vertices = generate_static_obstacles(parking_type, parking_lot, side)

----------------------------------------------------------------------------
(* The re-draw loop of reset called on its own.  The slot structures come   *)
(* from sim_env.parameters; the loop is run for slot footprints of several  *)
(* sizes, among them footprints wide enough for a draw to fail the distance *)
(* test.                                                                    *)

\* half extents of the slot footprint along each axis
SlotHalfExtents == {SLOT_W \div 2, SLOT_L \div 2, MAX_DISTANCE - 5000}

RedrawInit ==
    /\ parking_type \in {"parallel", "perpendicular"}
    /\ action_type = "discrete"
    /\ training_mode = "off"
    /\ py_random \in PyStates
    /\ np_global \in NpStates
    /\ np_random = 0
    /\ side \in 1..4
    /\ parking_lot \in {set_initial_parking_loc(side, s) : s \in PyStates}
    /\ \E hx \in SlotHalfExtents : \E hy \in SlotHalfExtents :
          parking_lot_vertices = Translate(Rect(hx, hy), parking_lot)
    /\ static_cars_vertices = <<NoVertices, NoVertices>>
    /\ car = NoCar
    /\ state = <<0, 0, 0, 0, 0, 0, 0, 0, 0, 0>>
    /\ terminated = FALSE
    /\ truncated = FALSE
    /\ run_steps = 0
    /\ ret = "init"
    /\ reward = 0
    /\ info = {}
    /\ result = NoResult

\* lines 253-257: draw the car location until it passes the distance test,
\* then build the Car; the number of draws taken is recorded
PlaceVehicle ==
    /\ ret = "init"
    /\ \E k \in {AcceptedDraw(side, parking_lot, parking_lot_vertices, py_random)} :
          /\ k < Cardinality(PyStates)
          /\ car' = Car(set_initial_car_loc(side, parking_lot,
                                            Advance(py_random, k, PyStates)),
                        set_initial_heading(parking_type, side, np_global))
          /\ py_random' = Advance(py_random, k + 1, PyStates)
          /\ result' = [call |-> "set_initial_car_loc", draws |-> k + 1]
    /\ np_global' = Advance(np_global, 1, NpStates)
    /\ ret' = "placed"
    /\ UNCHANGED <<config, np_random, scenario, state, flags, reward, info>>

RedrawNext == PlaceVehicle

RedrawSpec == RedrawInit /\ [][RedrawNext]_vars

\* each slot corner is strictly less than MAX_DISTANCE from the vehicle
\* position on both axes
WithinRange ==
    \A i \in 1..4 :
        /\ Abs(parking_lot_vertices[i][1] - car.car_loc[1]) < MAX_DISTANCE
        /\ Abs(parking_lot_vertices[i][2] - car.car_loc[2]) < MAX_DISTANCE

\* C24: with training mode off, the vehicle position that reset's re-draw loop
\* leaves is one for which check_max_distance is false: each slot corner is
\* strictly less than MAX_DISTANCE from the vehicle on both axes.
C24_ResetWithinRange ==
    (training_mode = "off" /\ ret \in {"placed", "reset"}) => WithinRange

\* a position accepted after a draw was rejected
C24_Witness ==
    ret = "placed" /\ result.draws > 1 /\ WithinRange

====
